---- MODULE Spec2Model ----
(***************************************************************************)
(* promcat: the path selection of src/promcat/core.py (ignore rules, the   *)
(* directory walk, the text heuristic), its section formatting and tree    *)
(* drawing, and the run loop of src/promcat/cli.py.                        *)
(*                                                                         *)
(* Text is modelled by TLA+ strings; a character is a string of length 1.  *)
(* Paths are the strings str(path.relative_to(root_dir)) yields: segments  *)
(* joined by "/".                                                          *)
(***************************************************************************)
EXTENDS Integers, Sequences, FiniteSets, TLC

VARIABLES
    pc,                          \* position of the run
    files,                       \* regular files under root_dir other than the ignore files: path -> content
    ignore_files,                \* the ignore files that exist under root_dir: name -> text
    ignore_specification_files,  \* argument of get_path_specification
    ignore_defaults,             \* argument of get_path_specification
    path_specification,          \* the PathSpec get_path_specification returns
    all_files,                   \* FileCollection.all_files
    text_files,                  \* FileCollection.text_files
    content,                     \* argument of add_line_numbers / format_file_section
    separator,                   \* argument of add_line_numbers / format_file_section
    call,                        \* the remaining arguments of format_file_section
    returned,                    \* the value add_line_numbers / format_file_section returned
    tree_files,                  \* argument of generate_tree
    tree,                        \* the value generate_tree returned
    disk,                        \* cli.main: what reading each collected file gives
    options,                     \* cli.main: the command line options
    m_files,                     \* cli.main: text_files, the list the run loop walks
    idx,                         \* cli.main: number of files the run loop has handled
    result,                      \* cli.main: result, the list of formatted sections
    stdout,                      \* cli.main: what click.echo wrote to the output channel
    stderr,                      \* cli.main: what click.echo(err=True) wrote
    written                      \* cli.main: what output.write_text wrote

vars == <<pc, files, ignore_files, ignore_specification_files, ignore_defaults,
          path_specification, all_files, text_files, content, separator, call,
          returned, tree_files, tree, disk, options, m_files, idx, result,
          stdout, stderr, written>>

walk_vars == <<files, ignore_files, ignore_specification_files, ignore_defaults,
               path_specification, all_files, text_files>>
num_vars == <<content, separator, call, returned>>
tree_vars == <<tree_files, tree>>
main_vars == <<disk, options, m_files, idx, result, stdout, stderr, written>>

-----------------------------------------------------------------------------
(* Bounds of the model.                                                    *)

\* most lines in the .gitignore file
MaxRules == 2
\* most regular files under root_dir (the ignore files not counted)
MaxFiles == 3
\* most characters of an enumerated content string
MaxLen == 3
\* most entries of the list handed to generate_tree
MaxTreeFiles == 3

-----------------------------------------------------------------------------
(* Strings.                                                                *)

Char(s, i) == SubSeq(s, i, i)

Min(S) == CHOOSE x \in S : \A y \in S : x <= y

\* the characters U+0020..U+005F and U+0061..U+007E, in code point order
PRINTABLE_LOW == " !\"#$%&'()*+,-./0123456789:;<=>?@ABCDEFGHIJKLMNOPQRSTUVWXYZ[\\]^_"
PRINTABLE_HIGH == "abcdefghijklmnopqrstuvwxyz{|}~"

\* code point of a character: Python compares strings code point by code point
CodePoints ==
    [c \in {Char(PRINTABLE_LOW, i) : i \in 1..Len(PRINTABLE_LOW)}
            \cup {Char(PRINTABLE_HIGH, i) : i \in 1..Len(PRINTABLE_HIGH)}
            \cup {"\n", "\r"} |->
        IF c = "\n" THEN 10
        ELSE IF c = "\r" THEN 13
        ELSE IF \E i \in 1..Len(PRINTABLE_LOW) : Char(PRINTABLE_LOW, i) = c
             THEN 31 + (CHOOSE i \in 1..Len(PRINTABLE_LOW) : Char(PRINTABLE_LOW, i) = c)
             ELSE 96 + (CHOOSE i \in 1..Len(PRINTABLE_HIGH) : Char(PRINTABLE_HIGH, i) = c)]

Ord(c) == CodePoints[c]

\* a < b for Python str
StrLess(a, b) ==
    LET common == IF Len(a) < Len(b) THEN Len(a) ELSE Len(b)
        diff == {i \in 1..common : Char(a, i) # Char(b, i)}
    IN  IF diff = {} THEN Len(a) < Len(b)
        ELSE Ord(Char(a, Min(diff))) < Ord(Char(b, Min(diff)))

\* a < b for Python lists/tuples of str
PartsLess(a, b) ==
    LET common == IF Len(a) < Len(b) THEN Len(a) ELSE Len(b)
        diff == {i \in 1..common : a[i] # b[i]}
    IN  IF diff = {} THEN Len(a) < Len(b)
        ELSE StrLess(a[Min(diff)], b[Min(diff)])

\* s.split(sep) for a one-character sep
RECURSIVE SplitFrom(_, _, _)
SplitFrom(s, sep, start) ==
    LET hits == {i \in start..Len(s) : Char(s, i) = sep}
    IN  IF hits = {} THEN <<SubSeq(s, start, Len(s))>>
        ELSE <<SubSeq(s, start, Min(hits) - 1)>> \o SplitFrom(s, sep, Min(hits) + 1)

Split(s, sep) == SplitFrom(s, sep, 1)

\* sep.join(parts)
RECURSIVE Join(_, _)
Join(parts, sep) ==
    IF parts = <<>> THEN ""
    ELSE IF Len(parts) = 1 THEN parts[1]
    ELSE LET half == Len(parts) \div 2
         IN  Join(SubSeq(parts, 1, half), sep) \o sep
                 \o Join(SubSeq(parts, half + 1, Len(parts)), sep)

\* the line boundaries of str.splitlines() among the characters of the model
IsLineBreak(c) == c \in {"\n", "\r"}

\* the elements of a finite set of integers, smallest first
Ascending(S) ==
    LET rank == [x \in S |-> Cardinality({y \in S : y < x})]
    IN  [i \in 1..Cardinality(S) |-> CHOOSE x \in S : rank[x] = i - 1]

\* str.splitlines(): "\r\n" is one boundary, and no empty last line
splitlines(s) ==
    LET boundaries ==
            Ascending({i \in 1..Len(s) :
                          /\ IsLineBreak(Char(s, i))
                          /\ ~(Char(s, i) = "\n" /\ i > 1 /\ Char(s, i - 1) = "\r")})
        After(k) ==
            IF Char(s, boundaries[k]) = "\r" /\ boundaries[k] < Len(s)
                   /\ Char(s, boundaries[k] + 1) = "\n"
            THEN boundaries[k] + 2 ELSE boundaries[k] + 1
        Start(k) == IF k = 1 THEN 1 ELSE After(k - 1)
        rest == Start(Len(boundaries) + 1)
    IN  [k \in 1..Len(boundaries) |-> SubSeq(s, Start(k), boundaries[k] - 1)]
            \o (IF rest <= Len(s) THEN <<SubSeq(s, rest, Len(s))>> ELSE <<>>)

\* str(n) for n >= 0
RECURSIVE ToStr(_)
ToStr(n) ==
    IF n < 10 THEN Char("0123456789", n + 1)
    ELSE ToStr(n \div 10) \o Char("0123456789", (n % 10) + 1)

RECURSIVE Spaces(_)
Spaces(n) == IF n <= 0 THEN "" ELSE " " \o Spaces(n - 1)

\* s.rjust(width)
rjust(s, width) == Spaces(width - Len(s)) \o s

\* sub in s
Contains(s, sub) ==
    \E i \in 1..(Len(s) - Len(sub) + 1) : SubSeq(s, i, i + Len(sub) - 1) = sub

\* s.startswith(prefix), s.endswith(suffix)
StartsWith(s, prefix) == Len(prefix) <= Len(s) /\ SubSeq(s, 1, Len(prefix)) = prefix
EndsWith(s, suffix) ==
    Len(suffix) <= Len(s) /\ SubSeq(s, Len(s) - Len(suffix) + 1, Len(s)) = suffix

\* s.strip() for the whitespace of the model
RECURSIVE Strip(_)
Strip(s) ==
    IF s # "" /\ Char(s, 1) = " " THEN Strip(SubSeq(s, 2, Len(s)))
    ELSE IF s # "" /\ Char(s, Len(s)) = " " THEN Strip(SubSeq(s, 1, Len(s) - 1))
    ELSE s

Range(f) == {f[i] : i \in DOMAIN f}

\* the sequences over S of length at most n
RECURSIVE SeqsUpTo(_, _)
SeqsUpTo(S, n) ==
    IF n = 0 THEN {<<>>}
    ELSE LET shorter == SeqsUpTo(S, n - 1)
         IN  shorter \cup {Append(s, x) : s \in shorter, x \in S}

-----------------------------------------------------------------------------
(* Ignore rules: pathspec's "gitwildmatch" patterns, as core.py uses them  *)
(* through PathSpec.from_lines and PathSpec.match_file.                    *)

DEFAULT_IGNORE_FILES == <<".git", "uv.lock", "package-lock.json">>

\* One segment of a pattern against one path segment: "*" is any run of
\* characters, "?" is one character, "\" escapes the next character.
\* (Bracket classes are not among the rules of the model.)
RECURSIVE GlobFrom(_, _, _, _)
GlobFrom(seg, i, name, j) ==
    IF i > Len(seg) THEN j > Len(name)
    ELSE IF Char(seg, i) = "*"
         THEN \E k \in j..(Len(name) + 1) : GlobFrom(seg, i + 1, name, k)
    ELSE IF Char(seg, i) = "?"
         THEN j <= Len(name) /\ GlobFrom(seg, i + 1, name, j + 1)
    ELSE IF Char(seg, i) = "\\"
         THEN /\ i < Len(seg)
              /\ j <= Len(name)
              /\ Char(seg, i + 1) = Char(name, j)
              /\ GlobFrom(seg, i + 2, name, j + 1)
    ELSE /\ j <= Len(name)
         /\ Char(seg, i) = Char(name, j)
         /\ GlobFrom(seg, i + 1, name, j + 1)

\* a lone "*" is "[^/]+": it needs one character at least
GlobSegment(seg, name) ==
    IF seg = "*" THEN name # "" ELSE GlobFrom(seg, 1, name, 1)

\* Adjacent "**" segments collapse into one.
RECURSIVE CollapseDoubleStars(_)
CollapseDoubleStars(segs) ==
    IF Len(segs) < 2 THEN segs
    ELSE IF segs[1] = "**" /\ segs[2] = "**" THEN CollapseDoubleStars(Tail(segs))
    ELSE <<segs[1]>> \o CollapseDoubleStars(Tail(segs))

\* NormalizeSegments with the leading "/" dropped and forgotten: the pattern
\* is placed like one without it
NormalizeSegmentsUnanchored(raw) ==
    LET segs == CollapseDoubleStars(raw)
        body == IF segs[1] = "" THEN Tail(segs) ELSE segs
        placed ==
            IF Len(body) = 1 \/ (Len(body) = 2 /\ body[2] = "")
            THEN IF body[1] # "**" THEN <<"**">> \o body ELSE body
            ELSE body
    IN  IF Len(placed) > 1 /\ placed[Len(placed)] = ""
        THEN SubSeq(placed, 1, Len(placed) - 1) \o <<"**">>
        ELSE placed

\* The segments pathspec builds its regular expression from: a leading "/"
\* anchors the pattern at the root, a pattern of one segment (with or without
\* a trailing "/") gets a leading "**", and a trailing "/" becomes a trailing
\* "**".
NormalizeSegments(raw) ==
    LET segs == CollapseDoubleStars(raw)
        placed ==
            IF segs[1] = "" THEN Tail(segs)
            ELSE IF Len(segs) = 1 \/ (Len(segs) = 2 /\ segs[2] = "")
                 THEN IF segs[1] # "**" THEN <<"**">> \o segs ELSE segs
            ELSE segs
    IN  IF Len(placed) > 1 /\ placed[Len(placed)] = ""
        THEN SubSeq(placed, 1, Len(placed) - 1) \o <<"**">>
        ELSE placed

\* pattern_to_regex with "!" taken as an ordinary character
pattern_to_regex_without_negation(line) ==
    LET stripped == Strip(line)
    IN  IF stripped = "" \/ StartsWith(stripped, "#") \/ stripped = "/"
        THEN [pattern |-> line, active |-> FALSE, include |-> FALSE, segs |-> <<>>]
        ELSE [pattern |-> line, active |-> TRUE, include |-> TRUE,
              segs |-> NormalizeSegments(Split(stripped, "/"))]

\* GitWildMatchPattern(line): a blank line, a comment and "/" match nothing
\* (include is None); a leading "!" negates.
pattern_to_regex(line) ==
    LET stripped == Strip(line)
        negated == StartsWith(stripped, "!")
        body == IF negated THEN SubSeq(stripped, 2, Len(stripped)) ELSE stripped
    IN  IF stripped = "" \/ StartsWith(stripped, "#") \/ stripped = "/"
        THEN [pattern |-> line, active |-> FALSE, include |-> FALSE, segs |-> <<>>]
        ELSE [pattern |-> line, active |-> TRUE, include |-> ~negated,
              segs |-> NormalizeSegments(Split(body, "/"))]

\* The regular expression of segs from segment pi on, against the path
\* segments from fi on.  A leading "**" is "(?:.+/)?", an inner "**" is
\* "(?:/.+)?", a trailing "**" is "/.*"; the last segment, when it is not
\* "**", is followed by "(?:/.*)?": it matches the entry and what lies below.
RECURSIVE RegexFrom(_, _, _, _)
RegexFrom(segs, pi, parts, fi) ==
    LET end == Len(segs)
    IN  IF segs[pi] = "**"
        THEN IF pi = 1 /\ pi = end THEN parts # <<>>
             ELSE IF pi = end THEN fi <= Len(parts)
             ELSE \E k \in fi..Len(parts) : RegexFrom(segs, pi + 1, parts, k)
        ELSE /\ fi <= Len(parts)
             /\ GlobSegment(segs[pi], parts[fi])
             /\ (pi = end \/ RegexFrom(segs, pi + 1, parts, fi + 1))

\* the pattern's regular expression against a path given by its segments
RegexMatches(p, parts) ==
    /\ p.active
    /\ p.segs # <<>>
    /\ RegexFrom(p.segs, 1, parts, 1)

\* pattern.match_file(file) is not None
PatternMatches(p, file) == RegexMatches(p, Split(file, "/"))

\* PathSpec.match_file(file): the patterns in order, each match setting the
\* verdict to the pattern's include
RECURSIVE MatchFrom(_, _, _, _)
MatchFrom(patterns, i, parts, verdict) ==
    IF i > Len(patterns) THEN verdict
    ELSE MatchFrom(patterns, i + 1, parts,
                   IF RegexMatches(patterns[i], parts) THEN patterns[i].include
                   ELSE verdict)

\* match_file as "some exclusion rule matches", negation rules left aside
match_file_any_exclusion(patterns, file) ==
    \E i \in DOMAIN patterns :
        patterns[i].include /\ RegexMatches(patterns[i], Split(file, "/"))

match_file(patterns, file) == MatchFrom(patterns, 1, Split(file, "/"), FALSE)

RECURSIVE Flatten(_)
Flatten(seqs) == IF seqs = <<>> THEN <<>> ELSE Head(seqs) \o Flatten(Tail(seqs))

\* get_path_specification(root_dir, sources, defaults): the lines of the
\* sources that exist, in the caller's order, then the default entries
PathSpecificationLines(ignored, sources, defaults) ==
    LET existing == SelectSeq(sources, LAMBDA n : n \in DOMAIN ignored)
        ignore_file_contents == [i \in 1..Len(existing) |-> splitlines(ignored[existing[i]])]
        ignore_files_lines == Flatten(ignore_file_contents)
    IN  IF defaults THEN ignore_files_lines \o DEFAULT_IGNORE_FILES
        ELSE ignore_files_lines

get_path_specification(ignored, sources, defaults) ==
    LET lines == PathSpecificationLines(ignored, sources, defaults)
    IN  [i \in 1..Len(lines) |-> pattern_to_regex(lines[i])]

-----------------------------------------------------------------------------
(* The text heuristic and the walk.                                        *)

\* f.read(1024)
SAMPLE_SIZE == 1024

\* A file's content, as far as is_text_file looks: whether open() and read()
\* succeed, the number of bytes, and the offsets (from 1) of its null bytes.
FileContent(readable, size, nul) == [readable |-> readable, size |-> size, nul |-> nul]

\* is_text_file reading the whole file instead of a sample
is_text_file_whole_file(c) ==
    IF ~c.readable THEN FALSE ELSE c.nul \cap 1..c.size = {}

\* is_text_file(filepath): False on IOError, else no null byte in the sample
is_text_file(c) ==
    IF ~c.readable THEN FALSE
    ELSE LET sample == 1..(IF c.size < SAMPLE_SIZE THEN c.size ELSE SAMPLE_SIZE)
         IN  c.nul \cap sample = {}

\* the ancestor directories of a path, nearest last
Ancestors(path) ==
    LET parts == Split(path, "/")
    IN  {Join(SubSeq(parts, 1, n), "/") : n \in 1..(Len(parts) - 1)}

\* path.is_file(): the regular files under root_dir, the ignore files among them
RegularFiles(fs, ignored) == DOMAIN fs \cup DOMAIN ignored

\* root_dir.rglob("*"): every file and every directory under root_dir
rglob(fs, ignored) ==
    RegularFiles(fs, ignored) \cup UNION {Ancestors(p) : p \in RegularFiles(fs, ignored)}

\* what open(path, "rb") and read give
ContentOf(fs, ignored, path) ==
    IF path \in DOMAIN fs THEN fs[path]
    ELSE FileContent(TRUE, Len(ignored[path]), {})

\* the order of sorted() had the paths been sorted as strings
PathLessAsString(a, b) == StrLess(Join(a, "/"), Join(b, "/"))

\* Path.__lt__: paths compare as their lists of parts
PathLess(a, b) == PartsLess(a, b)

\* one more path, given by its parts, put in its place in a sorted list
RECURSIVE Insert(_, _)
Insert(sorted, x) ==
    IF sorted = <<>> THEN <<x>>
    ELSE IF PathLess(x, Head(sorted)) THEN <<x>> \o sorted
    ELSE <<Head(sorted)>> \o Insert(Tail(sorted), x)

RECURSIVE SortedParts(_)
SortedParts(S) ==
    IF S = {} THEN <<>>
    ELSE LET x == CHOOSE y \in S : TRUE
         IN  Insert(SortedParts(S \ {x}), x)

\* sorted(paths): the paths are Path objects, and str() of one joins its parts
Sorted(S) ==
    LET inOrder == SortedParts({Split(p, "/") : p \in S})
    IN  [i \in 1..Len(inOrder) |-> Join(inOrder[i], "/")]

\* collect_files: all_files
CollectAll(fs, ignored, spec) ==
    SelectSeq(Sorted(rglob(fs, ignored)),
              LAMBDA p : p \in RegularFiles(fs, ignored) /\ ~match_file(spec, p))

\* collect_files: text_files, the files of all_files that is_text_file accepts
CollectText(fs, ignored, all) ==
    SelectSeq(all, LAMBDA p : is_text_file(ContentOf(fs, ignored, p)))

-----------------------------------------------------------------------------
(* The walk as a run: get_path_specification, then collect_files.          *)

NONE == "none"

WalkIdle ==
    /\ files = <<>>
    /\ ignore_files = <<>>
    /\ ignore_specification_files = <<>>
    /\ ignore_defaults = FALSE
    /\ path_specification = <<>>
    /\ all_files = <<>>
    /\ text_files = <<>>

NumIdle == content = "" /\ separator = "" /\ call = NONE /\ returned = ""

TreeIdle == tree_files = <<>> /\ tree = ""

MainIdle ==
    /\ disk = <<>>
    /\ options = NONE
    /\ m_files = <<>>
    /\ idx = 0
    /\ result = <<>>
    /\ stdout = <<>>
    /\ stderr = <<>>
    /\ written = NONE

\* the files the walk may find, and the lines a .gitignore is written from
WALK_PATHS ==
    {"a.log", "keep.log", "b.txt", "uv.lock", "build/keep.log",
     "src/build/x.txt", "src/build-anywhere/x.txt"}
GITIGNORE_LINES == {"*.log", "!keep.log", "/build", "build-anywhere"}
PROMCATIGNORE_TEXTS == {"*.log"}
SOURCE_LISTS ==
    {<<".gitignore">>, <<".gitignore", ".promcatignore">>, <<".promcatignore", ".gitignore">>}

PlainText == FileContent(TRUE, 5, {})

\* what a file may hold: text, nothing, a null byte at the start, a null byte
\* as the last byte of the sample, a null byte right after the sample, or
\* nothing that can be read
CONTENTS ==
    {PlainText,
     FileContent(TRUE, 0, {}),
     FileContent(TRUE, 4, {1}),
     FileContent(TRUE, SAMPLE_SIZE + 2, {SAMPLE_SIZE}),
     FileContent(TRUE, SAMPLE_SIZE + 2, {SAMPLE_SIZE + 1}),
     FileContent(FALSE, 0, {})}
CLASSIFY_PATHS == {"src/code.txt", "src.log", "a.log"}

\* the ignore files under root_dir: each is there or not
IgnoreFiles(git, prom) ==
    [n \in (IF git = NONE THEN {} ELSE {".gitignore"})
           \cup (IF prom = NONE THEN {} ELSE {".promcatignore"}) |->
        IF n = ".gitignore" THEN git ELSE prom]

WalkStart(paths, contents, gits, proms, sources) ==
    /\ pc = "start"
    /\ \E S \in SUBSET paths :
          /\ Cardinality(S) <= MaxFiles
          /\ files \in [S -> contents]
    /\ \E git \in gits, prom \in proms : ignore_files = IgnoreFiles(git, prom)
    /\ ignore_specification_files \in sources
    /\ ignore_defaults \in BOOLEAN
    /\ path_specification = <<>>
    /\ all_files = <<>>
    /\ text_files = <<>>
    /\ NumIdle /\ TreeIdle /\ MainIdle

InitWalk ==
    WalkStart(WALK_PATHS, {PlainText},
              {NONE} \cup {Join(r, "\n") : r \in SeqsUpTo(GITIGNORE_LINES, MaxRules) \ {<<>>}},
              {NONE} \cup PROMCATIGNORE_TEXTS, SOURCE_LISTS)

InitClassify ==
    WalkStart(CLASSIFY_PATHS, CONTENTS, {NONE, "*.log"}, {NONE}, {<<".gitignore">>})

GetPathSpecification ==
    /\ pc = "start"
    /\ path_specification' =
           get_path_specification(ignore_files, ignore_specification_files, ignore_defaults)
    /\ pc' = "specified"
    /\ UNCHANGED <<files, ignore_files, ignore_specification_files, ignore_defaults,
                   all_files, text_files, num_vars, tree_vars, main_vars>>

CollectFiles ==
    /\ pc = "specified"
    /\ all_files' = CollectAll(files, ignore_files, path_specification)
    /\ text_files' = CollectText(files, ignore_files, all_files')
    /\ pc' = "collected"
    /\ UNCHANGED <<files, ignore_files, ignore_specification_files, ignore_defaults,
                   path_specification, num_vars, tree_vars, main_vars>>

NextWalk == GetPathSpecification \/ CollectFiles

SpecWalk == InitWalk /\ [][NextWalk]_vars

SpecClassify == InitClassify /\ [][NextWalk]_vars

-----------------------------------------------------------------------------
(* Properties of the walk.                                                 *)

Listed == Range(all_files)
Regular == RegularFiles(files, ignore_files)
RuleLines == {path_specification[i].pattern : i \in DOMAIN path_specification}

\* a directory the rule list excludes lies above the path
UnderExcludedDirectory(path) ==
    \E d \in Ancestors(path) : match_file(path_specification, d)

\* rule i excludes the path, and the negation rule j, later, matches it too
ExcludedThenNegated(path, i, j) ==
    /\ i < j
    /\ path_specification[i].include
    /\ PatternMatches(path_specification[i], path)
    /\ path_specification[j].active
    /\ ~path_specification[j].include
    /\ PatternMatches(path_specification[j], path)

\* no rule after rule j excludes the path
NoLaterExclusion(path, j) ==
    \A k \in DOMAIN path_specification :
        k > j => ~(path_specification[k].include
                   /\ PatternMatches(path_specification[k], path))

\* C1 as stated: a file that a rule excludes and a later negation rule
\* matches, with no excluded directory above it, is in all_files.
C1_NegatedLaterIsListed ==
    pc = "collected" =>
        \A path \in Regular : \A i, j \in DOMAIN path_specification :
            (ExcludedThenNegated(path, i, j) /\ ~UnderExcludedDirectory(path))
                => path \in Listed

\* C1 amended: a file that a rule excludes and a later negation rule matches,
\* with no excluded directory above it and with no exclusion rule matching it
\* after that negation rule, is in all_files.
C1_LastMatchingRuleDecides ==
    pc = "collected" =>
        \A path \in Regular : \A i, j \in DOMAIN path_specification :
            (/\ ExcludedThenNegated(path, i, j)
             /\ NoLaterExclusion(path, j)
             /\ ~UnderExcludedDirectory(path))
                => path \in Listed

\* C1: collect_files has listed keep.log, which the first source's "*.log"
\* excludes and the second source's "!keep.log" re-includes
C1_Witness ==
    /\ pc = "collected"
    /\ ignore_specification_files = <<".promcatignore", ".gitignore">>
    /\ \E i, j \in DOMAIN path_specification :
          /\ ExcludedThenNegated("keep.log", i, j)
          /\ NoLaterExclusion("keep.log", j)
    /\ "keep.log" \in Listed
    /\ "a.log" \in Regular \ Listed

\* C2 as stated: a file under a directory the rule list excludes is in
\* neither all_files nor text_files, whatever negation rule matches the file.
C2_NoReincludeUnderExcludedDirectory ==
    pc = "collected" =>
        \A path \in Regular :
            UnderExcludedDirectory(path)
                => path \notin Listed /\ path \notin Range(text_files)

\* the rule list holds only "/build", "build-anywhere" and the default entries
OnlyAnchoringRules == RuleLines \subseteq {"/build", "build-anywhere"} \cup Range(DEFAULT_IGNORE_FILES)

\* C3: under a rule list of "/build" and "build-anywhere" (and the defaults),
\* a file is left out of all_files exactly when "/build" is a rule and the
\* file's first segment is build, or "build-anywhere" is a rule and some
\* segment of the file is build-anywhere, or a default entry names a segment.
C3_Anchoring ==
    (pc = "collected" /\ OnlyAnchoringRules) =>
        \A path \in Regular :
            LET parts == Split(path, "/")
            IN  path \notin Listed <=>
                    \/ "/build" \in RuleLines /\ parts[1] = "build"
                    \/ "build-anywhere" \in RuleLines /\ "build-anywhere" \in Range(parts)
                    \/ \E d \in Range(DEFAULT_IGNORE_FILES) :
                          d \in RuleLines /\ d \in Range(parts)

\* C3: both rules are in force, build/ at the root is left out, src/build/
\* and the file no rule matches are listed, src/build-anywhere/ is left out
C3_Witness ==
    /\ pc = "collected"
    /\ OnlyAnchoringRules
    /\ {"/build", "build-anywhere"} \subseteq RuleLines
    /\ {"build/keep.log", "src/build/x.txt", "src/build-anywhere/x.txt"} \subseteq Regular
    /\ "src/build/x.txt" \in Listed
    /\ "build/keep.log" \notin Listed
    /\ "src/build-anywhere/x.txt" \notin Listed
    /\ ".gitignore" \in Listed

IsSortedBy(seq, Less(_, _)) ==
    \A i, j \in DOMAIN seq : i < j => Less(seq[i], seq[j])

IsSubsequenceInOrder(sub, seq) ==
    sub = SelectSeq(seq, LAMBDA p : p \in Range(sub))

\* C4 as stated: all_files and text_files are sorted by the relative path
\* compared as one string, and text_files keeps the order of all_files.
C4_SortedByPathString ==
    pc = "collected" =>
        /\ IsSortedBy(all_files, StrLess)
        /\ IsSortedBy(text_files, StrLess)
        /\ IsSubsequenceInOrder(text_files, all_files)

ComponentsLess(a, b) == PartsLess(Split(a, "/"), Split(b, "/"))

\* C4 amended: all_files and text_files are sorted by the relative path
\* compared component by component (the list of its segments, each segment
\* compared as a string), and text_files keeps the order of all_files.
C4_SortedByComponents ==
    pc = "collected" =>
        /\ IsSortedBy(all_files, ComponentsLess)
        /\ IsSortedBy(text_files, ComponentsLess)
        /\ IsSubsequenceInOrder(text_files, all_files)

\* C4: src/code.txt is listed before src.log, which is the smaller string
C4_Witness ==
    /\ pc = "collected"
    /\ Len(all_files) = 3
    /\ \E i, j \in DOMAIN text_files :
          i < j /\ text_files[i] = "src/code.txt" /\ text_files[j] = "src.log"
    /\ StrLess("src.log", "src/code.txt")

\* the root holds .gitignore = "*.log\n!keep.log" and a.log, keep.log, b.txt,
\* and get_path_specification(root, [".gitignore"]) and collect_files ran
LogScenario ==
    /\ pc = "collected"
    /\ ignore_files = IgnoreFiles("*.log\n!keep.log", NONE)
    /\ DOMAIN files = {"a.log", "keep.log", "b.txt"}
    /\ ignore_specification_files = <<".gitignore">>

\* C5 as stated: in the scenario all_files is exactly {b.txt, keep.log}.
C5_ScenarioListsTwoFiles ==
    LogScenario => Listed = {"b.txt", "keep.log"}

\* C5 amended: in the scenario all_files is exactly {.gitignore, b.txt,
\* keep.log}: a.log is excluded, and the .gitignore file, a regular file
\* under the root that no rule matches, is listed with the others.
C5_ScenarioListsIgnoreFileToo ==
    LogScenario =>
        /\ Listed = {".gitignore", "b.txt", "keep.log"}
        /\ "a.log" \notin Listed

\* C5: the scenario has run, with the default entries in force
C5_Witness == LogScenario /\ ignore_defaults /\ Len(all_files) = 3

\* the file can be opened and read, and no null byte is among its first 1024 bytes
OpensWithoutEarlyNull(path) ==
    LET c == ContentOf(files, ignore_files, path)
    IN  c.readable /\ \A offset \in c.nul : offset > 1024

\* C6: a file the rule list excludes is in neither list; text_files is the
\* sub-sequence of all_files of the files that open and have no null byte in
\* their first 1024 bytes; a file that cannot be read and is not excluded is
\* in all_files and not in text_files.
C6_TextFilesAreTheNullFreeReadable ==
    pc = "collected" =>
        /\ \A path \in Regular :
              match_file(path_specification, path)
                  => path \notin Listed /\ path \notin Range(text_files)
        /\ text_files = SelectSeq(all_files, OpensWithoutEarlyNull)
        /\ \A path \in Regular :
              (~ContentOf(files, ignore_files, path).readable
               /\ ~match_file(path_specification, path))
                  => path \in Listed /\ path \notin Range(text_files)

\* C6: an empty file and a file whose null byte is byte 1025 are text, a file
\* whose null byte is byte 1024 and a file that cannot be read are listed
\* but not text
C6_Witness ==
    /\ pc = "collected"
    /\ DOMAIN files = CLASSIFY_PATHS
    /\ files["a.log"] = FileContent(TRUE, 0, {})
    /\ files["src.log"] = FileContent(TRUE, 1026, {1025})
    /\ files["src/code.txt"] = FileContent(FALSE, 0, {})
    /\ all_files = <<"a.log", "src/code.txt", "src.log">>
    /\ text_files = <<"a.log", "src.log">>

-----------------------------------------------------------------------------
(* core.py: line numbers and file sections.                                *)

\* the numbered lines counted from 0
NumberedLinesFromZero(lines, padding, sep) ==
    [i \in 1..Len(lines) |-> rjust(ToStr(i - 1), padding) \o sep \o lines[i]]

\* the lines add_line_numbers joins
NumberedLines(lines, padding, sep) ==
    [i \in 1..Len(lines) |-> rjust(ToStr(i), padding) \o sep \o lines[i]]

\* add_line_numbers(content, separator)
add_line_numbers(text, sep) ==
    IF text = "" THEN text
    ELSE LET lines == splitlines(text)
             padding == Len(ToStr(Len(lines)))
         IN  Join(NumberedLines(lines, padding, sep), "\n")

STYLES == {"newline", "separator", "markdown", "xml"}

\* format_file_section(path, content, style, include_footer, line_numbers, number_separator)
format_file_section(path, text, style, include_footer, line_numbers, number_separator) ==
    LET formatted_content ==
            IF line_numbers THEN add_line_numbers(text, number_separator) ELSE text
        start == IF include_footer THEN "start " ELSE ""
    IN  IF style = "newline" THEN "\n\n" \o formatted_content
        ELSE IF style = "separator"
             THEN LET header == "\n=== " \o start \o path \o " ===\n"
                      footer == IF include_footer THEN "\n=== end " \o path \o " ===\n" ELSE ""
                  IN  header \o formatted_content \o footer
        ELSE IF style = "markdown"
             THEN IF EndsWith(path, ".py")
                  THEN LET header == "\n# " \o start \o path \o "\n"
                           footer == IF include_footer THEN "\n# end " \o path \o "\n" ELSE ""
                       IN  header \o formatted_content \o footer
                  ELSE LET header == "\n## " \o start \o path \o "\n"
                           footer == IF include_footer THEN "\n## end " \o path \o "\n" ELSE ""
                       IN  header \o formatted_content \o footer
        ELSE IF style = "xml"
             THEN "\n<file>\n<path>" \o path \o "</path>\n<content>\n"
                      \o formatted_content \o "\n</content>\n</file>"
        ELSE formatted_content

\* the strings over the characters of chars, of length at most n
RECURSIVE StringsUpTo(_, _)
StringsUpTo(chars, n) ==
    IF n = 0 THEN {""}
    ELSE LET shorter == StringsUpTo(chars, n - 1)
         IN  shorter \cup {s \o c : s \in shorter, c \in chars}

\* "Line 1\nLine 2\n...\nLine n"
NumberedContent(n) == Join([i \in 1..n |-> "Line " \o ToStr(i)], "\n")

NUM_CONTENTS ==
    StringsUpTo({"a", "\n", "\r"}, MaxLen)
        \cup {"Line 1\nLine 2\nLine 3", "Single line", "Line A\nLine B", "test content",
              NumberedContent(9), NumberedContent(10), NumberedContent(100)}
SEPARATORS == {"|", ">", " | ", "", "\n"}
SECTION_PATHS == {"test.txt", "core.py"}

InitNum ==
    /\ pc = "start"
    /\ content \in NUM_CONTENTS
    /\ separator \in SEPARATORS
    /\ call = NONE
    /\ returned = ""
    /\ WalkIdle /\ TreeIdle /\ MainIdle

AddLineNumbers ==
    /\ pc = "start"
    /\ returned' = add_line_numbers(content, separator)
    /\ pc' = "numbered"
    /\ UNCHANGED <<content, separator, call, walk_vars, tree_vars, main_vars>>

FormatFileSection ==
    /\ pc = "start"
    /\ \E path \in SECTION_PATHS, style \in STYLES, include_footer \in BOOLEAN,
          line_numbers \in BOOLEAN :
          /\ call' = [path |-> path, style |-> style,
                      include_footer |-> include_footer, line_numbers |-> line_numbers]
          /\ returned' = format_file_section(path, content, style, include_footer,
                                             line_numbers, separator)
    /\ pc' = "formatted"
    /\ UNCHANGED <<content, separator, walk_vars, tree_vars, main_vars>>

NextNum == AddLineNumbers \/ FormatFileSection

SpecNum == InitNum /\ [][NextNum]_vars

-----------------------------------------------------------------------------
(* Properties of the line numbering.                                       *)

HasLineBreak(s) == \E i \in 1..Len(s) : IsLineBreak(Char(s, i))

\* the number of decimal digits of n >= 1
DecimalWidth(n) == CHOOSE d \in 1..n : 10 ^ (d - 1) <= n /\ n < 10 ^ d

\* the returned string splits into one line per line of the content, line i
\* being i in decimal, spaces before it up to the width of the line count,
\* then sep, then the line
SplitsIntoNumberedLines(sep) ==
    LET lines == splitlines(content)
        out == splitlines(returned)
        width == DecimalWidth(Len(lines))
    IN  /\ Len(out) = Len(lines)
        /\ \A i \in DOMAIN lines :
              out[i] = Spaces(width - Len(ToStr(i))) \o ToStr(i) \o sep \o lines[i]
        /\ Len(lines) = 100 => width = 3

C9_SeparatorBetweenSpaces ==
    /\ (pc = "numbered" /\ content # "" /\ separator \in {"|", ">"})
           => SplitsIntoNumberedLines(" " \o separator \o " ")
    /\ (/\ pc = "formatted"
        /\ content = "test content"
        /\ separator = ">"
        /\ call.style = "separator"
        /\ call.line_numbers)
           => Contains(returned, "1 > test content")

-----------------------------------------------------------------------------
(* core.py: the tree drawing.  The box-drawing characters are written in   *)
(* ASCII here: "+-- " stands for U+2514 U+2500 U+2500 and a space,         *)
(* "|-- " for U+251C U+2500 U+2500 and a space, and "|   " for U+2502 and  *)
(* three spaces.                                                           *)

LAST_CONNECTOR == "+-- "
CONNECTOR == "|-- "
LAST_EXTENSION == "    "
EXTENSION == "|   "

\* The nested dict generate_tree builds with setdefault, held as the set of
\* its nodes: a node is the list of the keys that lead to it.
TreeNodes(paths) ==
    UNION {{SubSeq(Split(p, "/"), 1, n) : n \in 1..Len(Split(p, "/"))} : p \in Range(paths)}

\* current.keys() for the dict at node
Keys(nodes, node) ==
    {n[Len(n)] : n \in {m \in nodes : Len(m) = Len(node) + 1 /\ SubSeq(m, 1, Len(node)) = node}}

\* sorted(keys), for strings
SortedKeys(S) ==
    LET rank == [x \in S |-> Cardinality({y \in S : StrLess(y, x)})]
    IN  [i \in 1..Cardinality(S) |-> CHOOSE x \in S : rank[x] = i - 1]

\* the connector had the index been compared with the length, not the length - 1
ConnectorOffByOne(i, n) == IF i = n + 1 THEN LAST_CONNECTOR ELSE CONNECTOR

\* the connector and the extension of entry i of n entries
Connector(i, n) == IF i = n THEN LAST_CONNECTOR ELSE CONNECTOR
Extension(i, n) == IF i = n THEN LAST_EXTENSION ELSE EXTENSION

\* build_tree(current, prefix), current being the dict at node
RECURSIVE build_tree(_, _, _)
build_tree(nodes, node, prefix) ==
    LET entries == SortedKeys(Keys(nodes, node))
        EntryLines(i) ==
            LET child == Append(node, entries[i])
                line == prefix \o Connector(i, Len(entries)) \o entries[i]
            IN  IF Keys(nodes, child) # {}
                THEN <<line, build_tree(nodes, child, prefix \o Extension(i, Len(entries)))>>
                ELSE <<line>>
    IN  Join(Flatten([i \in 1..Len(entries) |-> EntryLines(i)]), "\n")

\* generate_tree(files, root_dir), the files given relative to root_dir
generate_tree(paths) == build_tree(TreeNodes(paths), <<>>, "")

TREE_PATHS == {"a.txt", "src/a.py", "src/b.py", "src/lib/c.py", "src-x", "docs/r.md"}

InitTree ==
    /\ pc = "start"
    /\ tree_files \in SeqsUpTo(TREE_PATHS, MaxTreeFiles)
    /\ tree = ""
    /\ WalkIdle /\ NumIdle /\ MainIdle

GenerateTree ==
    /\ pc = "start"
    /\ tree' = generate_tree(tree_files)
    /\ pc' = "drawn"
    /\ UNCHANGED <<tree_files, walk_vars, num_vars, main_vars>>

NextTree == GenerateTree

SpecTree == InitTree /\ [][NextTree]_vars

-----------------------------------------------------------------------------
(* Properties of the tree drawing.                                         *)

\* every directory and file segment on some path of the set
NodesOf(paths) ==
    LET Prefixes(parts) == {SubSeq(parts, 1, n) : n \in 1..Len(parts)}
    IN  UNION {Prefixes(Split(p, "/")) : p \in paths}

\* no sibling of the node has a greater name
IsLastSibling(nodes, node) ==
    \A m \in nodes :
        (Len(m) = Len(node) /\ SubSeq(m, 1, Len(m) - 1) = SubSeq(node, 1, Len(node) - 1))
            => ~StrLess(node[Len(node)], m[Len(m)])

\* the line of a node: for each proper ancestor from the top four spaces when
\* it is a last sibling and the bar and three spaces otherwise, then the
\* node's own connector and name
NodeLine(nodes, node) ==
    Join([k \in 1..(Len(node) - 1) |->
             IF IsLastSibling(nodes, SubSeq(node, 1, k)) THEN "    " ELSE "|   "], "")
        \o (IF IsLastSibling(nodes, node) THEN "+-- " ELSE "|-- ")
        \o node[Len(node)]

\* the nodes, each parent right before its subtree and siblings by name
Preorder(nodes) ==
    LET rank == [x \in nodes |-> Cardinality({y \in nodes : PartsLess(y, x)})]
    IN  [i \in 1..Cardinality(nodes) |-> CHOOSE x \in nodes : rank[x] = i - 1]

\* C10: the drawing is one line per node of the path set, in pre-order with
\* siblings in lexicographic order, each line the ancestors' continuation
\* prefixes, the connector of a last or non-last sibling, and the name; it is
\* a function of the set of paths, and "" for no path.
C10_TreeDrawing ==
    pc = "drawn" =>
        LET nodes == NodesOf(Range(tree_files))
            order == Preorder(nodes)
        IN  /\ tree = Join([i \in 1..Len(order) |-> NodeLine(nodes, order[i])], "\n")
            /\ Len(splitlines(tree)) = Cardinality(nodes)
            /\ tree_files = <<>> => tree = ""

\* C10: three levels drawn from a list out of order and with a repeat: a
\* non-last directory with its subtree under the bar, the last sibling after
C10_Witness ==
    /\ pc = "drawn"
    /\ tree_files = <<"src-x", "src/lib/c.py", "src/lib/c.py">>
    /\ tree = "|-- src\n|   +-- lib\n|       +-- c.py\n+-- src-x"

-----------------------------------------------------------------------------
(* cli.py: its own line numbering and file sections, and the run loop of   *)
(* main.                                                                   *)

\* cli.add_line_numbers(content, separator)
cli_add_line_numbers(text, sep) ==
    IF text = "" THEN text
    ELSE LET lines == splitlines(text)
             padding == Len(ToStr(Len(lines)))
         IN  Join([i \in 1..Len(lines) |->
                      rjust(ToStr(i), padding) \o " " \o sep \o " " \o lines[i]], "\n")

\* cli.format_file_section(path, content, style, include_footer, line_numbers, separator)
cli_format_file_section(path, text, style, include_footer, line_numbers, sep) ==
    LET formatted_content == IF line_numbers THEN cli_add_line_numbers(text, sep) ELSE text
        start == IF include_footer THEN "start " ELSE ""
    IN  IF style = "newline" THEN "\n\n" \o formatted_content
        ELSE IF style = "separator"
             THEN LET header == "\n=== " \o start \o path \o " ===\n"
                      footer == IF include_footer THEN "\n=== end " \o path \o " ===\n" ELSE ""
                  IN  header \o formatted_content \o footer
        ELSE IF style = "markdown"
             THEN IF EndsWith(path, ".py")
                  THEN LET header == "\n# " \o start \o path \o "\n"
                           footer == IF include_footer THEN "\n# end " \o path \o "\n" ELSE ""
                       IN  header \o formatted_content \o footer
                  ELSE LET header == "\n## " \o start \o path \o "\n"
                           footer == IF include_footer THEN "\n## end " \o path \o "\n" ELSE ""
                       IN  header \o formatted_content \o footer
        ELSE IF style = "xml"
             THEN "\n<file>\n<path>" \o path \o "</path>\n<content>\n"
                      \o formatted_content \o "\n</content>\n</file>"
        ELSE formatted_content

\* the directory argument of main, and the files collect_text_files may return
DIRECTORY == "repo"
MAIN_PATHS == {"a.py", "b.txt", "c/d.txt"}

\* what open(file_path) and f.read() give: the content, or an exception
READS == {[ok |-> TRUE, text |-> "x\ny", error |-> ""],
          [ok |-> FALSE, text |-> "", error |-> "[Errno 13] Permission denied"]}

\* str(file_path), file_path being directory / relative
FilePath(relative) == DIRECTORY \o "/" \o relative

\* path_str
PathStr(relative, opts) == IF opts.relative THEN relative ELSE FilePath(relative)

\* the section of one file that was read
SectionOf(relative, opts, read) ==
    cli_format_file_section(PathStr(relative, opts), read.text, opts.style, opts.footer,
                            opts.line_numbers, opts.separator)

\* the message of the except branch
ErrorMessage(relative, read) == "Error reading " \o FilePath(relative) \o ": " \o read.error

\* the lists without a repeat over S
Orderings(S) == {q \in SeqsUpTo(S, Cardinality(S)) : Cardinality(Range(q)) = Len(q)}

InitMain ==
    /\ pc = "loop"
    /\ m_files \in Orderings(MAIN_PATHS)
    /\ disk \in [Range(m_files) -> READS]
    /\ options \in [relative : BOOLEAN, style : STYLES, footer : BOOLEAN,
                    line_numbers : BOOLEAN, separator : {"|"}, output : {NONE, "out.txt"}]
    /\ idx = 0
    /\ result = <<>>
    /\ stdout = <<>>
    /\ stderr = <<>>
    /\ written = NONE
    /\ WalkIdle /\ NumIdle /\ TreeIdle

\* the pass without the except branch: the exception ends the run
ProcessFileAborting ==
    /\ pc = "loop"
    /\ idx < Len(m_files)
    /\ LET file == m_files[idx + 1]
       IN  \/ /\ disk[file].ok
              /\ result' = Append(result, SectionOf(file, options, disk[file]))
              /\ pc' = pc
              /\ idx' = idx + 1
           \/ /\ ~disk[file].ok
              /\ pc' = "aborted"
              /\ UNCHANGED <<result, idx>>
    /\ UNCHANGED <<stderr, disk, options, m_files, stdout, written, walk_vars, num_vars, tree_vars>>

\* one pass of "for file_path in text_files": the try body, or the except branch
ProcessFile ==
    /\ pc = "loop"
    /\ idx < Len(m_files)
    /\ LET file == m_files[idx + 1]
       IN  \/ /\ disk[file].ok
              /\ result' = Append(result, SectionOf(file, options, disk[file]))
              /\ UNCHANGED stderr
           \/ /\ ~disk[file].ok
              /\ stderr' = Append(stderr, ErrorMessage(file, disk[file]))
              /\ UNCHANGED result
    /\ idx' = idx + 1
    /\ UNCHANGED <<pc, disk, options, m_files, stdout, written, walk_vars, num_vars, tree_vars>>

\* after the loop: join the sections, and write them or echo them
EmitOutput ==
    /\ pc = "loop"
    /\ idx = Len(m_files)
    /\ LET output_text == Join(result, "")
       IN  \/ /\ options.output # NONE
              /\ written' = output_text
              /\ stdout' = Append(stdout, "Output written to " \o options.output)
           \/ /\ options.output = NONE
              /\ stdout' = Append(stdout, output_text)
              /\ UNCHANGED written
    /\ pc' = "done"
    /\ UNCHANGED <<disk, options, m_files, idx, result, stderr, walk_vars, num_vars, tree_vars>>

NextMain == ProcessFile \/ EmitOutput

SpecMain == InitMain /\ [][NextMain]_vars

-----------------------------------------------------------------------------
(* Properties of the run loop.                                             *)

Readable == SelectSeq(m_files, LAMBDA f : disk[f].ok)
Failing == SelectSeq(m_files, LAMBDA f : ~disk[f].ok)

\* what the run put out: the file it wrote, or else what it echoed
Emitted == IF options.output # NONE THEN written ELSE stdout[1]

\* the first n entries of a list
Take(seq, n) == SubSeq(seq, 1, n)

\* the files among the first n of the list that were read, and those that failed
ReadAmong(n) == SelectSeq(Take(m_files, n), LAMBDA f : disk[f].ok)
FailedAmong(n) == SelectSeq(Take(m_files, n), LAMBDA f : ~disk[f].ok)

\* one message naming each failing file on the error channel, in order
OneMessagePerFailure(failed) ==
    /\ Len(stderr) = Len(failed)
    /\ \A i \in DOMAIN stderr :
          /\ StartsWith(stderr[i], "Error reading ")
          /\ Contains(stderr[i], FilePath(failed[i]))

\* the sections of the files that were read, in order
SectionsOf(read) == [i \in 1..Len(read) |-> SectionOf(read[i], options, disk[read[i]])]

\* C7: a failure never ends the run.  While the loop runs, a step can be
\* taken, and the files handled so far have left one path-qualified message
\* each on the error channel when they failed and their section otherwise;
\* once the run is over every file was handled, and the output is the
\* sections of the files that were read, joined in collection order, with
\* nothing of a failing file in it.
C7_RunCompletesPastFailures ==
    /\ idx <= Len(m_files)
    /\ OneMessagePerFailure(FailedAmong(idx))
    /\ result = SectionsOf(ReadAmong(idx))
    /\ pc # "done" => ENABLED NextMain
    /\ pc = "done" =>
          /\ idx = Len(m_files)
          /\ Emitted = Join(SectionsOf(Readable), "")
          /\ \A f \in Range(Failing) : ~Contains(Emitted, f)

\* C7: the run is over, a file that failed lies between two that were read
C7_Witness ==
    /\ pc = "done"
    /\ Len(m_files) = 3
    /\ disk[m_files[1]].ok /\ ~disk[m_files[2]].ok /\ disk[m_files[3]].ok
    /\ Len(stderr) = 1
    /\ Len(result) = 2
    /\ options.output = NONE
    /\ stdout # <<"">>

====
